---------------------------- MODULE Spec2Model ----------------------------
(***************************************************************************)
(* A model of the inventory management system of src/inventory.rs: the     *)
(* product catalog, the two transaction logs, the handlers that change     *)
(* them and the reports, two of which cost the sale log against the        *)
(* purchase lots.                                                          *)
(*                                                                         *)
(* Quantities are u64 in the source.  The model keeps U64_BITS of the 64   *)
(* bits: + on quantities is taken modulo 2^U64_BITS, as a build without    *)
(* overflow checks computes it, and a sum that passes U64_MAX is also a    *)
(* panic, as a build with them ends it.  In the sessions other than        *)
(* SpecWide every quantity is a sum of a few small inputs, far below       *)
(* U64_MAX.  Prices are f64 in the source; the model draws them from small *)
(* integers, on which the f64 products and sums of the reports are exact.  *)
(* A negative price stands for every input the handlers reject (x < 0.0).  *)
(* Rounding, the infinities and NaN (which the parse accepts, which        *)
(* x < 0.0 lets through and which == never finds equal) are outside the    *)
(* model.                                                                  *)
(*                                                                         *)
(* A handler is a function from the inventory and what is typed to the     *)
(* inventory it leaves, so that a property of an operation can be stated   *)
(* in every reachable state, for every input.  Of what is printed the      *)
(* state holds the lines of the last report; the messages of the handlers  *)
(* are not modelled.                                                       *)
(***************************************************************************)
EXTENDS Integers, Sequences, FiniteSets, TLC

\* the inventory of main (main.rs 16): the catalog and the two logs
VARIABLES products, sale_txs, purchase_txs
\* what the last pass of a menu loop printed as a report (the feature typed
\* and the lines; Nothing if it ran no report), and whether the process has
\* panicked
VARIABLES printed, panicked

vars == <<products, sale_txs, purchase_txs, printed, panicked>>

---------------------------------------------------------------------------
(* Bounds of the model and the inputs the handlers read.                   *)

\* the largest quantity typed at a quantity prompt
MaxQty == 2
\* the lengths the two logs grow to in a session of all four handlers
MaxPurchaseTxs == 2
MaxSaleTxs == 2
\* and in a session of purchases and sales alone
TradeMaxPurchaseTxs == 2
TradeMaxSaleTxs == 2
\* and in the session of the Widget scenario
WidgetMaxPurchaseTxs == 2
WidgetMaxSaleTxs == 1
\* and in a session that runs the reports
ReportMaxPurchaseTxs == 2
ReportMaxSaleTxs == 2
\* and in a session of quantities up to the largest u64
WideMaxPurchaseTxs == 2
WideMaxSaleTxs == 2
\* and in a session of purchases and deletions over three names
CatalogMaxPurchaseTxs == 3
\* and in the session of the Widget scenario with deletions and the sales
\* history
HistoryMaxPurchaseTxs == 2
HistoryMaxSaleTxs == 2

Names == {"a", "b"}
Descriptions == {"d0", "d1"}
\* quantity prompts: 0 is parsed; add_handler rejects it, sales_handler
\* does not
Quantities == 0..MaxQty
\* price prompts: -1 is parsed and rejected by x < 0.0
PurchasePrices == {-1, 1, 2}
SalePrices == {-1, 4, 5}
\* an edit prompt reads "c", which keeps the field (inventory.rs 403, 417),
\* or a value: Keep is the first, <<v>> the second
Keep == << >>
Typed(S) == {<<v>> : v \in S}

Min(a, b) == IF a <= b THEN a ELSE b

\* Quantities are u64 (inventory.rs 28, 42, 57).  The model keeps U64_BITS of
\* the 64 bits: what overflows is the same, the numbers are smaller.
U64_BITS == 8
U64_MAX == 2^U64_BITS - 1

\* a + b and a += b on u64: a build without overflow checks (release) wraps,
\* a build with them (debug) panics with "attempt to add with overflow"
u64_add(a, b) == (a + b) % (U64_MAX + 1)
u64_add_overflows(a, b) == a + b > U64_MAX

---------------------------------------------------------------------------
(* Constructors (inventory.rs 71-101).                                     *)

\* Product::new with purchase_prices: vec![] at line 78: the first purchase
\* leaves no lot
Product_new_no_lot(name, description, quantity, sale_price, purchase_price) ==
    [name |-> name, description |-> description, quantity |-> quantity,
     sale_price |-> sale_price, purchase_prices |-> << >>]

Product_new(name, description, quantity, sale_price, purchase_price) ==
    [name |-> name, description |-> description, quantity |-> quantity,
     sale_price |-> sale_price,
     purchase_prices |-> << <<quantity, purchase_price>> >>]

SaleTx_new(product_name, quantity, sale_price) ==
    [product_name |-> product_name, quantity |-> quantity,
     sale_price |-> sale_price]

PurchaseTx_new(product_name, quantity, purchase_price) ==
    [product_name |-> product_name, quantity |-> quantity,
     purchase_price |-> purchase_price]

---------------------------------------------------------------------------
(* impl InventoryManager for Inventory (inventory.rs 113-167).  The        *)
(* methods take the vector they work on and return the new vector; a       *)
(* Result is the record [ok, products].                                    *)

\* iter().find(|p| p.name == name): the index of the first match, 0 if none
find_product(ps, name) ==
    IF \E i \in 1..Len(ps) : ps[i].name = name
    THEN CHOOSE i \in 1..Len(ps) :
            /\ ps[i].name = name
            /\ \A j \in 1..(i - 1) : ps[j].name # name
    ELSE 0

get_product(ps, name) == find_product(ps, name)

add_new_product(ps, name, description, quantity, sale_price, purchase_price) ==
    Append(ps, Product_new(name, description, quantity, sale_price, purchase_price))

\* merge_lot without the loop of lines 129-134: every purchase is a new lot
merge_lot_always_push(lots, quantity, purchase_price) ==
    Append(lots, <<quantity, purchase_price>>)

\* merge_lot with insert(0, ..) for the push of line 135: a lot of a new cost
\* goes to the front
merge_lot_prepends(lots, quantity, purchase_price) ==
    IF \E i \in 1..Len(lots) : lots[i][2] = purchase_price
    THEN LET i == CHOOSE k \in 1..Len(lots) :
                     /\ lots[k][2] = purchase_price
                     /\ \A j \in 1..(k - 1) : lots[j][2] # purchase_price
         IN  [lots EXCEPT ![i] = <<u64_add(@[1], quantity), @[2]>>]
    ELSE << <<quantity, purchase_price>> >> \o lots

\* the loop over purchase_prices.iter_mut(): the first lot of that price
\* takes the quantity, else a new lot is pushed
merge_lot(lots, quantity, purchase_price) ==
    IF \E i \in 1..Len(lots) : lots[i][2] = purchase_price
    THEN LET i == CHOOSE k \in 1..Len(lots) :
                     /\ lots[k][2] = purchase_price
                     /\ \A j \in 1..(k - 1) : lots[j][2] # purchase_price
         IN  [lots EXCEPT ![i] = <<u64_add(@[1], quantity), @[2]>>]
    ELSE Append(lots, <<quantity, purchase_price>>)

\* add_same_product without line 128: the lot takes the quantity, the product's
\* quantity does not
add_same_product_lot_only(ps, name, quantity, purchase_price) ==
    LET i == find_product(ps, name) IN
    IF i = 0
    THEN [ok |-> FALSE, products |-> ps]
    ELSE [ok |-> TRUE,
          products |-> [ps EXCEPT ![i] =
              [@ EXCEPT !.purchase_prices = merge_lot(@, quantity, purchase_price)]]]

add_same_product(ps, name, quantity, purchase_price) ==
    LET i == find_product(ps, name) IN
    IF i = 0
    THEN [ok |-> FALSE, products |-> ps]
    ELSE [ok |-> TRUE,
          products |-> [ps EXCEPT ![i] =
              [@ EXCEPT !.quantity = u64_add(@, quantity),
                        !.purchase_prices = merge_lot(@, quantity, purchase_price)]]]

\* whether one of the two += of add_same_product (lines 128, 131) overflows
add_same_product_overflows(ps, name, quantity, purchase_price) ==
    LET i == find_product(ps, name) IN
    /\ i # 0
    /\ \/ u64_add_overflows(ps[i].quantity, quantity)
       \/ \E k \in 1..Len(ps[i].purchase_prices) :
             /\ ps[i].purchase_prices[k][2] = purchase_price
             /\ \A j \in 1..(k - 1) : ps[i].purchase_prices[j][2] # purchase_price
             /\ u64_add_overflows(ps[i].purchase_prices[k][1], quantity)

edit_product(ps, new_product) ==
    LET i == find_product(ps, new_product.name) IN
    IF i = 0
    THEN [ok |-> FALSE, products |-> ps]
    ELSE [ok |-> TRUE, products |-> [ps EXCEPT ![i] = new_product]]

\* delete_product with swap_remove at the position found, for retain: the
\* last product takes the place of the one removed
delete_product_swap_remove(ps, product_name) ==
    LET i == find_product(ps, product_name) IN
    IF i = 0
    THEN ps
    ELSE IF i = Len(ps)
         THEN SubSeq(ps, 1, Len(ps) - 1)
         ELSE [SubSeq(ps, 1, Len(ps) - 1) EXCEPT ![i] = ps[Len(ps)]]

delete_product(ps, product_name) ==
    SelectSeq(ps, LAMBDA p : p.name # product_name)

record_sale(txs, tx) == Append(txs, tx)

\* record_purchase without the push of line 165
record_purchase_dropped(txs, tx) == txs

record_purchase(txs, tx) == Append(txs, tx)

---------------------------------------------------------------------------
(* The handlers.  Each takes the inventory it is handed (&mut Inventory),  *)
(* as the record [products, sale_txs, purchase_txs], and what is typed at  *)
(* its prompts, and returns the inventory it leaves; an early return       *)
(* leaves the inventory as it was.                                         *)

\* add_handler without the lookup of lines 210-278: every purchase creates a
\* product
add_handler_no_lookup(inventory, name, description, quantity, sale_price, purchase_price) ==
    IF quantity = 0
    THEN inventory
    ELSE IF sale_price < 0
    THEN inventory
    ELSE IF purchase_price < 0
    THEN inventory
    ELSE LET tx == PurchaseTx_new(name, quantity, purchase_price) IN
         [inventory EXCEPT
             !.products = add_new_product(@, name, description, quantity,
                                          sale_price, purchase_price),
             !.purchase_txs = record_purchase(@, tx)]

\* inventory.rs 197-369
add_handler(inventory, name, description, quantity, sale_price, purchase_price) ==
    LET p == get_product(inventory.products, name) IN
    IF p # 0
    THEN \* the product exists: quantity and purchase price are asked for
         IF quantity = 0
         THEN inventory
         ELSE IF purchase_price < 0
         THEN inventory
         ELSE LET p_name == inventory.products[p].name
                  tx == PurchaseTx_new(p_name, quantity, purchase_price)
                  r  == add_same_product(inventory.products, p_name, quantity,
                                         purchase_price)
              IN  IF r.ok
                  THEN [inventory EXCEPT
                           !.products = r.products,
                           !.purchase_txs = record_purchase(@, tx)]
                  ELSE inventory
    ELSE IF quantity = 0
         THEN inventory
         ELSE IF sale_price < 0
         THEN inventory
         ELSE IF purchase_price < 0
         THEN inventory
         ELSE LET tx == PurchaseTx_new(name, quantity, purchase_price) IN
              [inventory EXCEPT
                  !.products = add_new_product(@, name, description, quantity,
                                               sale_price, purchase_price),
                  !.purchase_txs = record_purchase(@, tx)]

\* whether add_handler reaches add_same_product (line 269) and a += of it
\* overflows
add_handler_overflows(inventory, name, quantity, purchase_price) ==
    /\ get_product(inventory.products, name) # 0
    /\ quantity # 0
    /\ ~(purchase_price < 0)
    /\ add_same_product_overflows(inventory.products, name, quantity,
                                  purchase_price)

\* edit_handler with the sale log reading the product's price rather than
\* holding a copy: the entries under the name take the edited price
edit_handler_live_price(inventory, name, description, sale_price) ==
    LET p == get_product(inventory.products, name) IN
    IF p = 0
    THEN inventory
    ELSE LET product == inventory.products[p]
             p1 == IF description # Keep
                   THEN [product EXCEPT !.description = description[1]]
                   ELSE product
         IN  IF sale_price # Keep /\ sale_price[1] < 0
             THEN inventory
             ELSE LET new_product == IF sale_price # Keep
                                     THEN [p1 EXCEPT !.sale_price = sale_price[1]]
                                     ELSE p1
                      r == edit_product(inventory.products, new_product)
                  IN  [inventory EXCEPT
                          !.products = r.products,
                          !.sale_txs = [k \in 1..Len(@) |->
                              IF @[k].product_name = name
                              THEN [@[k] EXCEPT !.sale_price = new_product.sale_price]
                              ELSE @[k]]]

\* edit_handler building the edited product with Product::new rather than
\* from the clone of line 391: the lots are those of a new product
edit_handler_rebuilds(inventory, name, description, sale_price) ==
    LET p == get_product(inventory.products, name) IN
    IF p = 0
    THEN inventory
    ELSE LET product == inventory.products[p] IN
         IF sale_price # Keep /\ sale_price[1] < 0
         THEN inventory
         ELSE LET new_product ==
                      Product_new(product.name,
                                  IF description # Keep THEN description[1]
                                  ELSE product.description,
                                  product.quantity,
                                  IF sale_price # Keep THEN sale_price[1]
                                  ELSE product.sale_price,
                                  0)
                  r == edit_product(inventory.products, new_product)
              IN  [inventory EXCEPT !.products = r.products]

\* inventory.rs 373-437: description and sale_price are what the two prompts
\* read, Keep or <<value>>
edit_handler(inventory, name, description, sale_price) ==
    LET p == get_product(inventory.products, name) IN
    IF p = 0
    THEN inventory
    ELSE LET product == inventory.products[p]
             p1 == IF description # Keep
                   THEN [product EXCEPT !.description = description[1]]
                   ELSE product
         IN  IF sale_price # Keep /\ sale_price[1] < 0
             THEN inventory
             ELSE LET new_product == IF sale_price # Keep
                                     THEN [p1 EXCEPT !.sale_price = sale_price[1]]
                                     ELSE p1
                      r == edit_product(inventory.products, new_product)
                  IN  [inventory EXCEPT !.products = r.products]

\* delete_handler taking the entries of the name out of the logs with the
\* product
delete_handler_purges_logs(inventory, name) ==
    [inventory EXCEPT
        !.products = delete_product(@, name),
        !.sale_txs = SelectSeq(@, LAMBDA tx : tx.product_name # name),
        !.purchase_txs = SelectSeq(@, LAMBDA tx : tx.product_name # name)]

\* inventory.rs 440-452
delete_handler(inventory, name) ==
    [inventory EXCEPT !.products = delete_product(@, name)]

\* sales_handler without the check of lines 514-517
sales_handler_unchecked(inventory, name, quantity) ==
    LET p == get_product(inventory.products, name) IN
    IF p = 0
    THEN inventory
    ELSE LET product == inventory.products[p]
             new_product == [product EXCEPT !.quantity = @ - quantity]
             tx == SaleTx_new(new_product.name, quantity, new_product.sale_price)
             r  == edit_product(inventory.products, new_product)
         IN  IF r.ok
             THEN [inventory EXCEPT
                      !.products = r.products,
                      !.sale_txs = record_sale(@, tx)]
             ELSE inventory

\* sales_handler without line 521: the sale is logged, the decremented clone is
\* never stored
sales_handler_clone_dropped(inventory, name, quantity) ==
    LET p == get_product(inventory.products, name) IN
    IF p = 0
    THEN inventory
    ELSE LET product == inventory.products[p] IN
         IF quantity > product.quantity
         THEN inventory
         ELSE LET new_product == [product EXCEPT !.quantity = @ - quantity]
                  tx == SaleTx_new(new_product.name, quantity,
                                   new_product.sale_price)
              IN  [inventory EXCEPT !.sale_txs = record_sale(@, tx)]

\* inventory.rs 479-528
sales_handler(inventory, name, quantity) ==
    LET p == get_product(inventory.products, name) IN
    IF p = 0
    THEN inventory
    ELSE LET product == inventory.products[p] IN
         IF quantity > product.quantity
         THEN inventory
         ELSE LET new_product == [product EXCEPT !.quantity = @ - quantity]
                  tx == SaleTx_new(new_product.name, quantity,
                                   new_product.sale_price)
                  r  == edit_product(inventory.products, new_product)
              IN  IF r.ok
                  THEN [inventory EXCEPT
                           !.products = r.products,
                           !.sale_txs = record_sale(@, tx)]
                  ELSE inventory

---------------------------------------------------------------------------
(* The reports (inventory.rs 581-676).  They print and change nothing; a   *)
(* report is modelled by the lines it prints, as a value.                  *)

\* report_sales, lines 582-587: the HashMap total_sales after the first i
\* entries of the sale log, name -> <<quantity, total sale price>>
RECURSIVE total_sales(_, _)
total_sales(txs, i) ==
    IF i = 0
    THEN << >>
    ELSE LET m  == total_sales(txs, i - 1)
             tx == txs[i]
         IN  IF tx.product_name \in DOMAIN m
             THEN [m EXCEPT ![tx.product_name] =
                      <<u64_add(@[1], tx.quantity),
                        @[2] + tx.quantity * tx.sale_price>>]
             ELSE m @@ (tx.product_name :>
                      <<tx.quantity, tx.quantity * tx.sale_price>>)

\* report_cost without the min of line 597: all that was sold is charged to
\* the first lot
report_cost_first_lot(lots, i, sold_quantity, purchase_price) ==
    IF i > Len(lots)
    THEN [purchase_price |-> purchase_price, unmatched |-> sold_quantity]
    ELSE [purchase_price |-> purchase_price + sold_quantity * lots[i][2],
          unmatched |-> 0]

\* report_sales, lines 594-603: the loop over the lots from lot i on, with
\* sold_quantity still to cost and purchase_price accumulated so far
RECURSIVE report_cost(_, _, _, _)
report_cost(lots, i, sold_quantity, purchase_price) ==
    IF i > Len(lots)
    THEN [purchase_price |-> purchase_price, unmatched |-> sold_quantity]
    ELSE LET current_quantity == Min(sold_quantity, lots[i][1])
             price == purchase_price + current_quantity * lots[i][2]
             left  == sold_quantity - current_quantity
         IN  IF left = 0
             THEN [purchase_price |-> price, unmatched |-> 0]
             ELSE report_cost(lots, i + 1, left, price)

\* report_sales without the else of lines 606-608: a product not found costs
\* nothing
report_sales_no_gap(ps, txs) ==
    LET totals == total_sales(txs, Len(txs)) IN
    [k \in DOMAIN totals |->
        LET v == totals[k]
            i == find_product(ps, k)
            c == IF i # 0
                 THEN report_cost(ps[i].purchase_prices, 1, v[1], 0)
                 ELSE [purchase_price |-> 0, unmatched |-> v[1]]
        IN  [quantity |-> v[1], total_sale_price |-> v[2], err |-> FALSE,
             purchase_price |-> c.purchase_price, unmatched |-> c.unmatched,
             profit |-> v[2] - c.purchase_price]]

\* report_sales: one line per key of total_sales.  err is the line ending
\* "Error (Unable to calculate)"; purchase_price and profit are those of
\* lines 595-604, and 0 on an err line, which computes neither.
report_sales(ps, txs) ==
    LET totals == total_sales(txs, Len(txs)) IN
    [k \in DOMAIN totals |->
        LET v == totals[k]
            i == find_product(ps, k)
        IN  IF i # 0
            THEN LET c == report_cost(ps[i].purchase_prices, 1, v[1], 0) IN
                 [quantity |-> v[1], total_sale_price |-> v[2], err |-> FALSE,
                  purchase_price |-> c.purchase_price,
                  unmatched |-> c.unmatched,
                  profit |-> v[2] - c.purchase_price]
            ELSE [quantity |-> v[1], total_sale_price |-> v[2], err |-> TRUE,
                  purchase_price |-> 0, unmatched |-> 0, profit |-> 0]]

\* display_cost without the min of line 647: a lot reached is charged whole
RECURSIVE display_cost_whole_lot(_, _, _, _, _)
display_cost_whole_lot(lots, i, skip, tx_quantity, purchase_price) ==
    IF i > Len(lots)
    THEN [purchase_price |-> purchase_price, unmatched |-> tx_quantity]
    ELSE IF skip >= lots[i][1]
         THEN display_cost_whole_lot(lots, i + 1, skip - lots[i][1],
                                     tx_quantity, purchase_price)
         ELSE LET current_quantity == lots[i][1] - skip
                  price == purchase_price + current_quantity * lots[i][2]
                  left  == tx_quantity - current_quantity
              IN  IF left = 0
                  THEN [purchase_price |-> price, unmatched |-> 0]
                  ELSE display_cost_whole_lot(lots, i + 1, 0, left, price)

\* display_cost without the skip of lines 643-648: every entry is costed from
\* the first lot
RECURSIVE display_cost_from_start(_, _, _, _, _)
display_cost_from_start(lots, i, skip, tx_quantity, purchase_price) ==
    IF i > Len(lots)
    THEN [purchase_price |-> purchase_price, unmatched |-> tx_quantity]
    ELSE LET current_quantity == Min(tx_quantity, lots[i][1])
             price == purchase_price + current_quantity * lots[i][2]
             left  == tx_quantity - current_quantity
         IN  IF left = 0
             THEN [purchase_price |-> price, unmatched |-> 0]
             ELSE display_cost_from_start(lots, i + 1, 0, left, price)

\* display_cost with q for q - skip at line 647: the lot that skip ends in is
\* charged from its first unit
RECURSIVE display_cost_skip_not_deducted(_, _, _, _, _)
display_cost_skip_not_deducted(lots, i, skip, tx_quantity, purchase_price) ==
    IF i > Len(lots)
    THEN [purchase_price |-> purchase_price, unmatched |-> tx_quantity]
    ELSE IF skip >= lots[i][1]
         THEN display_cost_skip_not_deducted(lots, i + 1, skip - lots[i][1],
                                             tx_quantity, purchase_price)
         ELSE LET current_quantity == Min(tx_quantity, lots[i][1])
                  price == purchase_price + current_quantity * lots[i][2]
                  left  == tx_quantity - current_quantity
              IN  IF left = 0
                  THEN [purchase_price |-> price, unmatched |-> 0]
                  ELSE display_cost_skip_not_deducted(lots, i + 1, 0, left,
                                                      price)

\* display_cost over purchase_prices.iter().rev() at line 640: the lot bought
\* last is charged first
RECURSIVE display_cost_rev(_, _, _, _, _)
display_cost_rev(lots, i, skip, tx_quantity, purchase_price) ==
    IF i > Len(lots)
    THEN [purchase_price |-> purchase_price, unmatched |-> tx_quantity]
    ELSE LET lot == lots[Len(lots) + 1 - i] IN
         IF skip >= lot[1]
         THEN display_cost_rev(lots, i + 1, skip - lot[1], tx_quantity,
                               purchase_price)
         ELSE LET current_quantity == Min(tx_quantity, lot[1] - skip)
                  price == purchase_price + current_quantity * lot[2]
                  left  == tx_quantity - current_quantity
              IN  IF left = 0
                  THEN [purchase_price |-> price, unmatched |-> 0]
                  ELSE display_cost_rev(lots, i + 1, 0, left, price)

\* display_sales, lines 640-654: the loop over the lots from lot i on, with
\* skip units still to pass over and tx_quantity still to cost
RECURSIVE display_cost(_, _, _, _, _)
display_cost(lots, i, skip, tx_quantity, purchase_price) ==
    IF i > Len(lots)
    THEN [purchase_price |-> purchase_price, unmatched |-> tx_quantity]
    ELSE IF skip >= lots[i][1]
         THEN display_cost(lots, i + 1, skip - lots[i][1], tx_quantity,
                           purchase_price)
         ELSE LET current_quantity == Min(tx_quantity, lots[i][1] - skip)
                  price == purchase_price + current_quantity * lots[i][2]
                  left  == tx_quantity - current_quantity
              IN  IF left = 0
                  THEN [purchase_price |-> price, unmatched |-> 0]
                  ELSE display_cost(lots, i + 1, 0, left, price)

\* display_loop with line 655 adding the units matched, not the units of the
\* entry
RECURSIVE display_loop_offset_matched(_, _, _)
display_loop_offset_matched(ps, txs, i) ==
    IF i = 0
    THEN [sold_purchase_prices |-> << >>, lines |-> << >>]
    ELSE LET before == display_loop_offset_matched(ps, txs, i - 1)
             tx     == txs[i]
             m0     == before.sold_purchase_prices
             found  == find_product(ps, tx.product_name)
             known  == tx.product_name \in DOMAIN m0
             m1     == IF ~known /\ found # 0
                       THEN m0 @@ (ps[found].name :>
                              [offset |-> 0,
                               purchase_prices |-> ps[found].purchase_prices])
                       ELSE m0
             err    == ~known /\ found = 0
             costed == tx.product_name \in DOMAIN m1
             c      == IF costed
                       THEN display_cost(m1[tx.product_name].purchase_prices, 1,
                                         m1[tx.product_name].offset,
                                         tx.quantity, 0)
                       ELSE [purchase_price |-> 0, unmatched |-> 0]
             m2     == IF costed
                       THEN [m1 EXCEPT ![tx.product_name].offset =
                                u64_add(@, tx.quantity - c.unmatched)]
                       ELSE m1
             line   == [product_name |-> tx.product_name,
                        quantity |-> tx.quantity,
                        sale_price |-> tx.sale_price,
                        err |-> err,
                        purchase_price |-> c.purchase_price,
                        unmatched |-> c.unmatched,
                        profit |-> IF err THEN 0
                                   ELSE tx.quantity * tx.sale_price
                                        - c.purchase_price]
         IN  [sold_purchase_prices |-> m2, lines |-> Append(before.lines, line)]

\* display_sales, lines 622-675: the state after the first i entries of the
\* sale log: the HashMap sold_purchase_prices, name -> [offset,
\* purchase_prices], and the lines printed so far
RECURSIVE display_loop(_, _, _)
display_loop(ps, txs, i) ==
    IF i = 0
    THEN [sold_purchase_prices |-> << >>, lines |-> << >>]
    ELSE LET before == display_loop(ps, txs, i - 1)
             tx     == txs[i]
             m0     == before.sold_purchase_prices
             found  == find_product(ps, tx.product_name)
             known  == tx.product_name \in DOMAIN m0
             m1     == IF ~known /\ found # 0
                       THEN m0 @@ (ps[found].name :>
                              [offset |-> 0,
                               purchase_prices |-> ps[found].purchase_prices])
                       ELSE m0
             err    == ~known /\ found = 0
             costed == tx.product_name \in DOMAIN m1
             c      == IF costed
                       THEN display_cost(m1[tx.product_name].purchase_prices, 1,
                                         m1[tx.product_name].offset,
                                         tx.quantity, 0)
                       ELSE [purchase_price |-> 0, unmatched |-> 0]
             m2     == IF costed
                       THEN [m1 EXCEPT ![tx.product_name].offset =
                                u64_add(@, tx.quantity)]
                       ELSE m1
             line   == [product_name |-> tx.product_name,
                        quantity |-> tx.quantity,
                        sale_price |-> tx.sale_price,
                        err |-> err,
                        purchase_price |-> c.purchase_price,
                        unmatched |-> c.unmatched,
                        profit |-> IF err THEN 0
                                   ELSE tx.quantity * tx.sale_price
                                        - c.purchase_price]
         IN  [sold_purchase_prices |-> m2, lines |-> Append(before.lines, line)]

\* display_sales: one line per entry of the sale log, in log order
display_sales(ps, txs) == display_loop(ps, txs, Len(txs)).lines

\* whether the += of line 585 overflows at some entry of the sale log
report_sales_overflows(txs) ==
    \E i \in 1..Len(txs) :
        LET m == total_sales(txs, i - 1) IN
        /\ txs[i].product_name \in DOMAIN m
        /\ u64_add_overflows(m[txs[i].product_name][1], txs[i].quantity)

\* whether the += of line 655 overflows at some entry of the sale log
display_sales_overflows(ps, txs) ==
    \E i \in 1..Len(txs) :
        LET m == display_loop(ps, txs, i - 1).sold_purchase_prices IN
        /\ txs[i].product_name \in DOMAIN m
        /\ u64_add_overflows(m[txs[i].product_name].offset, txs[i].quantity)

\* report_products, lines 570-577: one block of lines per product, in catalog
\* order
report_products(ps) ==
    [i \in 1..Len(ps) |->
        [name |-> ps[i].name, description |-> ps[i].description,
         quantity |-> ps[i].quantity, sale_price |-> ps[i].sale_price,
         purchase_prices |-> ps[i].purchase_prices]]

\* report_purchases, lines 683-688: quantity and purchase_price after the
\* first i lots of a product
RECURSIVE purchases_total(_, _)
purchases_total(lots, i) ==
    IF i = 0
    THEN [quantity |-> 0, purchase_price |-> 0]
    ELSE LET t == purchases_total(lots, i - 1) IN
         [quantity |-> u64_add(t.quantity, lots[i][1]),
          purchase_price |-> t.purchase_price + lots[i][1] * lots[i][2]]

\* report_purchases: one line per product, in catalog order
report_purchases(ps) ==
    [i \in 1..Len(ps) |->
        LET t == purchases_total(ps[i].purchase_prices,
                                 Len(ps[i].purchase_prices))
        IN  [product_name |-> ps[i].name, quantity |-> t.quantity,
             purchase_price |-> t.purchase_price]]

\* whether the += of line 686 overflows at some lot of some product
report_purchases_overflows(ps) ==
    \E i \in 1..Len(ps) :
        \E k \in 1..Len(ps[i].purchase_prices) :
            u64_add_overflows(
                purchases_total(ps[i].purchase_prices, k - 1).quantity,
                ps[i].purchase_prices[k][1])

\* display_purchases: one line per entry of the purchase log, in log order
display_purchases(txs) ==
    [i \in 1..Len(txs) |->
        [product_name |-> txs[i].product_name, quantity |-> txs[i].quantity,
         purchase_price |-> txs[i].purchase_price,
         total_cost |-> txs[i].quantity * txs[i].purchase_price]]

\* report_feature with the sales history draining the sale log it walks
\* (drain(..) for iter() at line 622)
report_feature_drains(inventory, feature) ==
    [inventory |-> IF feature = "3"
                   THEN [inventory EXCEPT !.sale_txs = << >>]
                   ELSE inventory,
     printed |->
        [feature |-> feature,
         lines |->
            CASE feature = "1" -> report_products(inventory.products)
              [] feature = "2" -> report_sales(inventory.products,
                                               inventory.sale_txs)
              [] feature = "3" -> display_sales(inventory.products,
                                                inventory.sale_txs)
              [] feature = "4" -> report_purchases(inventory.products)
              [] feature = "5" -> display_purchases(inventory.purchase_txs)
              [] OTHER -> << >>]]

\* one pass of the loop of report_handler (inventory.rs 555-562): the report
\* of the feature typed is run on the inventory (&mut Inventory); what comes
\* back is the inventory the report leaves and what it printed
report_feature(inventory, feature) ==
    [inventory |-> inventory,
     printed |->
        [feature |-> feature,
         lines |->
            CASE feature = "1" -> report_products(inventory.products)
              [] feature = "2" -> report_sales(inventory.products,
                                               inventory.sale_txs)
              [] feature = "3" -> display_sales(inventory.products,
                                                inventory.sale_txs)
              [] feature = "4" -> report_purchases(inventory.products)
              [] feature = "5" -> display_purchases(inventory.purchase_txs)
              [] OTHER -> << >>]]

\* whether a += of the report of the feature typed overflows
report_feature_overflows(inventory, feature) ==
    \/ feature = "2" /\ report_sales_overflows(inventory.sale_txs)
    \/ feature = "3" /\ display_sales_overflows(inventory.products,
                                                inventory.sale_txs)
    \/ feature = "4" /\ report_purchases_overflows(inventory.products)

---------------------------------------------------------------------------
(* Inventory::new (inventory.rs 62-68) and the menu loop (main.rs 19-39).  *)

Nothing == [feature |-> "", lines |-> << >>]

Init ==
    /\ products = << >>
    /\ sale_txs = << >>
    /\ purchase_txs = << >>
    /\ printed = Nothing
    /\ panicked = FALSE

\* the inventory main holds (main.rs 16), and a handler's return to the loop
Inventory ==
    [products |-> products, sale_txs |-> sale_txs, purchase_txs |-> purchase_txs]

Return(inventory) ==
    /\ products' = inventory.products
    /\ sale_txs' = inventory.sale_txs
    /\ purchase_txs' = inventory.purchase_txs

\* a pass of the loop that ran no report and did not panic
NoReport ==
    /\ printed' = Nothing
    /\ UNCHANGED panicked

\* a pass in which a += overflows: a build with overflow checks panics there
\* and the process is gone, a build without them goes on with the wrapped sum
Overflow(wrapped) ==
    \/ /\ panicked' = TRUE
       /\ printed' = Nothing
       /\ UNCHANGED <<products, sale_txs, purchase_txs>>
    \/ wrapped

\* one pass of the loop choosing Purchase Management (main.rs 35), with
\* what is typed at the prompts drawn from the sets given
Purchase(N, D, Q, SP, PP) ==
    \E name \in N, description \in D, quantity \in Q, sale_price \in SP,
       purchase_price \in PP :
       LET done == /\ Return(add_handler(Inventory, name, description,
                                         quantity, sale_price, purchase_price))
                   /\ NoReport
       IN  IF add_handler_overflows(Inventory, name, quantity, purchase_price)
           THEN Overflow(done)
           ELSE done

\* Sales Management (main.rs 34)
Sale(N, Q) ==
    \E name \in N, quantity \in Q :
       /\ Return(sales_handler(Inventory, name, quantity))
       /\ NoReport

\* Inventory Management, Edit product (main.rs 33, inventory.rs 188)
Edit(N, D, SP) ==
    \E name \in N, description \in Typed(D) \cup {Keep},
       sale_price \in Typed(SP) \cup {Keep} :
       /\ Return(edit_handler(Inventory, name, description, sale_price))
       /\ NoReport

\* Inventory Management, Delete product (main.rs 33, inventory.rs 189)
Delete(N) ==
    \E name \in N :
       /\ Return(delete_handler(Inventory, name))
       /\ NoReport

\* Reporting (main.rs 36), one pass of the loop of report_handler
Features == {"1", "2", "3", "4", "5"}

Report(F) ==
    \E feature \in F :
       LET r    == report_feature(Inventory, feature)
           done == /\ Return(r.inventory)
                   /\ printed' = r.printed
                   /\ UNCHANGED panicked
       IN  IF report_feature_overflows(Inventory, feature)
           THEN Overflow(done)
           ELSE done

Next ==
    \/ /\ Len(purchase_txs) < MaxPurchaseTxs
       /\ Purchase(Names, Descriptions, Quantities, SalePrices, PurchasePrices)
    \/ /\ Len(sale_txs) < MaxSaleTxs
       /\ Sale(Names, Quantities)
    \/ Edit(Names, Descriptions, SalePrices)
    \/ Delete(Names)

Spec == Init /\ [][Next]_vars

\* a session in which only Purchase Management and Sales Management are
\* chosen
TradeDescriptions == {"d0"}
TradeSalePrices == {-1, 4}

NextTrade ==
    \/ /\ Len(purchase_txs) < TradeMaxPurchaseTxs
       /\ Purchase(Names, TradeDescriptions, Quantities, TradeSalePrices,
                   PurchasePrices)
    \/ /\ Len(sale_txs) < TradeMaxSaleTxs
       /\ Sale(Names, Quantities)

SpecTrade == Init /\ [][NextTrade]_vars

\* the session of the scenario: one product, Widget, bought in lots of 10
\* and 5 and sold by 12, at whole-dollar prices
WidgetNames == {"Widget"}
WidgetDescriptions == {"a widget"}
WidgetQuantities == {5, 10, 12}
WidgetPurchasePrices == {1, 2, 3}
WidgetSalePrices == {5}

NextWidget ==
    \/ /\ Len(purchase_txs) < WidgetMaxPurchaseTxs
       /\ Purchase(WidgetNames, WidgetDescriptions, WidgetQuantities,
                   WidgetSalePrices, WidgetPurchasePrices)
    \/ /\ Len(sale_txs) < WidgetMaxSaleTxs
       /\ Sale(WidgetNames, WidgetQuantities)

SpecWidget == Init /\ [][NextWidget]_vars

\* the session of the Widget scenario with deletions, so that the sale log
\* can hold more units under the name than the lots do, and with the sales
\* history (feature 3 of Reporting)
NextHistory ==
    \/ /\ Len(purchase_txs) < HistoryMaxPurchaseTxs
       /\ Purchase(WidgetNames, WidgetDescriptions, WidgetQuantities,
                   WidgetSalePrices, WidgetPurchasePrices)
    \/ /\ Len(sale_txs) < HistoryMaxSaleTxs
       /\ Sale(WidgetNames, WidgetQuantities)
    \/ Delete(WidgetNames)
    \/ Report({"3"})

SpecHistory == Init /\ [][NextHistory]_vars

\* a session of purchases and deletions over three names, so that a deletion
\* can leave two products behind
CatalogNames == {"a", "b", "c"}
CatalogQuantities == {0, 1}
CatalogPurchasePrices == {-1, 1}

NextCatalog ==
    \/ /\ Len(purchase_txs) < CatalogMaxPurchaseTxs
       /\ Purchase(CatalogNames, TradeDescriptions, CatalogQuantities,
                   TradeSalePrices, CatalogPurchasePrices)
    \/ Delete(CatalogNames)

SpecCatalog == Init /\ [][NextCatalog]_vars

\* a session in which the quantities typed go up to the largest a u64 holds,
\* so that the sums of the handlers and of the reports can pass it; a process
\* that has panicked takes no further step
WideNames == {"a"}
WideQuantities == {1, U64_MAX}
WideSalePrices == {4}
WidePurchasePrices == {1, 2}

NextWide ==
    \/ /\ ~panicked
       /\ Len(purchase_txs) < WideMaxPurchaseTxs
       /\ Purchase(WideNames, TradeDescriptions, WideQuantities,
                   WideSalePrices, WidePurchasePrices)
    \/ /\ ~panicked
       /\ Len(sale_txs) < WideMaxSaleTxs
       /\ Sale(WideNames, WideQuantities)
    \/ /\ ~panicked
       /\ Delete(WideNames)
    \/ /\ ~panicked
       /\ Report(Features)

SpecWide == Init /\ [][NextWide]_vars

\* a session in which all four features of the main menu are chosen, the
\* five reports among them
ReportQuantities == {0, 1}

NextReport ==
    \/ /\ Len(purchase_txs) < ReportMaxPurchaseTxs
       /\ Purchase(Names, TradeDescriptions, ReportQuantities, SalePrices,
                   PurchasePrices)
    \/ /\ Len(sale_txs) < ReportMaxSaleTxs
       /\ Sale(Names, ReportQuantities)
    \/ Edit(Names, TradeDescriptions, SalePrices)
    \/ Delete(Names)
    \/ Report(Features)

SpecReport == Init /\ [][NextReport]_vars

---------------------------------------------------------------------------
(* What the properties below speak of.                                     *)

\* the units logged under a name in a transaction log
RECURSIVE SumQty(_, _)
SumQty(txs, name) ==
    IF txs = << >>
    THEN 0
    ELSE (IF Head(txs).product_name = name THEN Head(txs).quantity ELSE 0)
         + SumQty(Tail(txs), name)

\* the entries logged under a name
CountTxs(txs, name) ==
    Cardinality({i \in 1..Len(txs) : txs[i].product_name = name})

RECURSIVE LotTotal(_)
LotTotal(lots) ==
    IF lots = << >> THEN 0 ELSE Head(lots)[1] + LotTotal(Tail(lots))

Present(ps, name) == find_product(ps, name) # 0
ProductOf(ps, name) == ps[find_product(ps, name)]

\* P of the inventory every handler returns from the current one, for
\* everything that can be typed at its prompts in the session of Spec
EveryReturn(P(_)) ==
    /\ \A name \in Names, description \in Descriptions, quantity \in Quantities,
          sale_price \in SalePrices, purchase_price \in PurchasePrices :
          P(add_handler(Inventory, name, description, quantity, sale_price,
                        purchase_price))
    /\ \A name \in Names, quantity \in Quantities :
          P(sales_handler(Inventory, name, quantity))
    /\ \A name \in Names, description \in Typed(Descriptions) \cup {Keep},
          sale_price \in Typed(SalePrices) \cup {Keep} :
          P(edit_handler(Inventory, name, description, sale_price))
    /\ \A name \in Names : P(delete_handler(Inventory, name))

---------------------------------------------------------------------------
(* C1: stock conservation.  In a session of purchases and sales alone      *)
(* (SpecTrade), every product's quantity is the sum of the purchase-log    *)
(* quantities under its name minus the sum of the sale-log quantities      *)
(* under its name.                                                         *)
C1_StockConservation ==
    \A i \in 1..Len(products) :
        products[i].quantity =
            SumQty(purchase_txs, products[i].name)
            - SumQty(sale_txs, products[i].name)

\* a product restocked after its creation and sold from
C1_Witness ==
    \E i \in 1..Len(products) :
        /\ CountTxs(purchase_txs, products[i].name) >= 2
        /\ SumQty(sale_txs, products[i].name) > 0
        /\ products[i].quantity > 0

(* C2 as claimed: in every reachable state of a session of all four        *)
(* handlers, each product in the catalog has quantity equal to the units   *)
(* purchased minus the units sold that the logs hold under its name.       *)
C2_QuantityMatchesLogs ==
    \A i \in 1..Len(products) :
        products[i].quantity =
            SumQty(purchase_txs, products[i].name)
            - SumQty(sale_txs, products[i].name)

\* what a handler's return does to the quantities, against what it logs
C2_FollowsLogs(r) ==
    \A n \in Names :
        LET bought == SumQty(r.purchase_txs, n) - SumQty(purchase_txs, n)
            sold   == SumQty(r.sale_txs, n) - SumQty(sale_txs, n)
        IN  Present(r.products, n) =>
                IF Present(products, n)
                THEN ProductOf(r.products, n).quantity
                        = ProductOf(products, n).quantity + bought - sold
                ELSE /\ ProductOf(r.products, n).quantity = bought
                     /\ sold = 0

(* C2 as amended: every operation (purchase, sale, edit, delete) changes   *)
(* the quantity of a product it leaves in the catalog by exactly the units *)
(* it logs as purchased minus the units it logs as sold under that name,   *)
(* and a product it creates has the quantity of the purchase it logs: a    *)
(* product's quantity is the units purchased minus the units sold under    *)
(* its name since that product was created.                                *)
C2_QuantityFollowsLogs == EveryReturn(C2_FollowsLogs)

\* a product created again after its name was sold from and deleted: the logs
\* hold more under its name than it ever had
C2_Witness ==
    \E i \in 1..Len(products) :
        /\ SumQty(sale_txs, products[i].name) > 0
        /\ products[i].quantity <
              SumQty(purchase_txs, products[i].name)
              - SumQty(sale_txs, products[i].name)

---------------------------------------------------------------------------
(* The lot sequence unit by unit, for the cost properties.                 *)

\* the unit costs of the units of a lot sequence, in lot order
RECURSIVE UnitCosts(_)
UnitCosts(lots) ==
    IF lots = << >>
    THEN << >>
    ELSE [k \in 1..Head(lots)[1] |-> Head(lots)[2]] \o UnitCosts(Tail(lots))

\* the sum of the entries of units at positions from + 1 .. from + n
RECURSIVE SumUnits(_, _, _)
SumUnits(units, from, n) ==
    IF n = 0 THEN 0 ELSE units[from + n] + SumUnits(units, from, n - 1)

\* the costs the sales history prints on the lines of a name, summed
RECURSIVE SumCost(_, _)
SumCost(lines, name) ==
    IF lines = << >>
    THEN 0
    ELSE (IF Head(lines).product_name = name
          THEN Head(lines).purchase_price ELSE 0)
         + SumCost(Tail(lines), name)

(* C3: FIFO cost.  For a product in the catalog with lots L whose sold     *)
(* quantity n in the sales report does not exceed the units in L, the cost *)
(* the sales report computes is the sum of the unit costs of the first n   *)
(* units of L in lot order.                                                *)
C3_FifoCost ==
    LET report == report_sales(products, sale_txs) IN
    \A i \in 1..Len(products) :
        LET name == products[i].name
            lots == products[i].purchase_prices
        IN  (name \in DOMAIN report /\ report[name].quantity <= LotTotal(lots))
            => /\ ~report[name].err
               /\ report[name].purchase_price
                     = SumUnits(UnitCosts(lots), 0, report[name].quantity)

\* a product sold past its first lot and not to the end of its last
C3_Witness ==
    \E i \in 1..Len(products) :
        LET lots == products[i].purchase_prices
            sold == SumQty(sale_txs, products[i].name)
        IN  /\ Len(lots) >= 2
            /\ sold > lots[1][1]
            /\ sold < LotTotal(lots)

\* the Widget case: lots [(10, $1), (5, $2)] and one sale-log entry, of 12
C4_Case(i) ==
    /\ products[i].purchase_prices = << <<10, 1>>, <<5, 2>> >>
    /\ Len(sale_txs) = 1
    /\ sale_txs[1].product_name = products[i].name
    /\ sale_txs[1].quantity = 12

\* the cost both reports print in that case
C4_CostIs(i, cost) ==
    /\ ~report_sales(products, sale_txs)[products[i].name].err
    /\ report_sales(products, sale_txs)[products[i].name].purchase_price = cost
    /\ ~display_sales(products, sale_txs)[1].err
    /\ display_sales(products, sale_txs)[1].purchase_price = cost

(* C4 as claimed: for a product with lots [(10, $1), (5, $2)], a sale of   *)
(* 12 units is costed at 10*$1 + 2*$2, which is $12.                       *)
C4_CostIsTwelve ==
    \A i \in 1..Len(products) : C4_Case(i) => C4_CostIs(i, 12)

(* C4 as amended: for a product with lots [(10, $1), (5, $2)], a sale of   *)
(* 12 units is costed at 10*$1 + 2*$2, which is $14, by the sales report   *)
(* and by the sales history.                                               *)
C4_CostIsFourteen ==
    \A i \in 1..Len(products) : C4_Case(i) => C4_CostIs(i, 10 * 1 + 2 * 2)

\* Widget bought by 10 at $1 and by 5 at $2, and sold by 12
C4_Witness ==
    /\ Len(products) = 1
    /\ products[1].purchase_prices = << <<10, 1>>, <<5, 2>> >>
    /\ products[1].quantity = 3
    /\ Len(sale_txs) = 1
    /\ sale_txs[1].quantity = 12

(* C5: sequential mode against aggregate mode.  For every product in the   *)
(* catalog whose sold total does not exceed its purchased total (by the    *)
(* logs), the costs the sales history computes for its sale-log entries    *)
(* sum to the cost the sales report computes for it.                       *)
C5_SequentialEqualsAggregate ==
    LET report == report_sales(products, sale_txs)
        lines  == display_sales(products, sale_txs)
    IN  \A i \in 1..Len(products) :
            LET name == products[i].name IN
            (/\ name \in DOMAIN report
             /\ SumQty(sale_txs, name) <= SumQty(purchase_txs, name))
            => SumCost(lines, name) = report[name].purchase_price

\* a product of two lots sold in two entries, the second of them reaching the
\* second lot
C5_Witness ==
    \E i \in 1..Len(products) :
        LET name == products[i].name
            lots == products[i].purchase_prices
        IN  /\ Len(lots) = 2
            /\ CountTxs(sale_txs, name) = 2
            /\ \A k \in 1..Len(sale_txs) : sale_txs[k].quantity >= 1
            /\ SumQty(sale_txs, name) > lots[1][1]
            /\ SumQty(sale_txs, name) <= SumQty(purchase_txs, name)

---------------------------------------------------------------------------
(* The lots, the logs and the failures.                                    *)

NoTwoLotsOfOneCost(lots) ==
    \A j, k \in 1..Len(lots) : j # k => lots[j][2] # lots[k][2]

\* a restock of name by quantity at a unit cost its lots hold: what
\* add_handler returns holds the same lots, the one of that cost larger by
\* quantity
C6_MergedInto(r, name, quantity, purchase_price) ==
    LET old == ProductOf(products, name).purchase_prices
        new == ProductOf(r.products, name).purchase_prices
    IN  /\ Len(new) = Len(old)
        /\ \A k \in 1..Len(old) :
              new[k] = IF old[k][2] = purchase_price
                       THEN <<old[k][1] + quantity, purchase_price>>
                       ELSE old[k]

(* C6: lot merge.  In every reachable state no product has two lots of     *)
(* equal unit cost; a restock of a product at a unit cost that its lots    *)
(* hold adds the quantity to that lot and leaves the number of lots as it  *)
(* was.                                                                    *)
C6_LotMerge ==
    /\ \A i \in 1..Len(products) :
          NoTwoLotsOfOneCost(products[i].purchase_prices)
    /\ \A name \in Names, description \in Descriptions,
          quantity \in Quantities \ {0}, sale_price \in SalePrices,
          purchase_price \in PurchasePrices :
          (/\ Present(products, name)
           /\ \E k \in 1..Len(ProductOf(products, name).purchase_prices) :
                 ProductOf(products, name).purchase_prices[k][2] = purchase_price)
          => C6_MergedInto(add_handler(Inventory, name, description, quantity,
                                       sale_price, purchase_price),
                           name, quantity, purchase_price)

\* a product bought twice at one unit cost: one lot, of the two quantities
C6_Witness ==
    \E i \in 1..Len(products) :
        /\ CountTxs(purchase_txs, products[i].name) = 2
        /\ Len(products[i].purchase_prices) = 1
        /\ products[i].purchase_prices[1][1]
              = SumQty(purchase_txs, products[i].name)

\* the sale log a handler returns holds the entries it was handed, at the
\* prices they held
C7_PricesKept(r) ==
    /\ Len(r.sale_txs) >= Len(sale_txs)
    /\ \A k \in 1..Len(sale_txs) :
          r.sale_txs[k].sale_price = sale_txs[k].sale_price

(* C7: sale price snapshot.  The entry a sale appends to the sale log      *)
(* holds the sale price the product has at the sale, and no operation      *)
(* (purchase, sale, edit of the sale price, delete) changes the sale price *)
(* held by an entry already in the log.                                    *)
C7_SalePriceSnapshot ==
    /\ \A name \in Names, quantity \in Quantities :
          LET r == sales_handler(Inventory, name, quantity) IN
          r # Inventory =>
              r.sale_txs = Append(sale_txs,
                  [product_name |-> name, quantity |-> quantity,
                   sale_price |-> ProductOf(products, name).sale_price])
    /\ EveryReturn(C7_PricesKept)

\* a product sold at one price and now offered at another
C7_Witness ==
    \E k \in 1..Len(sale_txs) :
        /\ Present(products, sale_txs[k].product_name)
        /\ ProductOf(products, sale_txs[k].product_name).sale_price
              # sale_txs[k].sale_price

(* C8: deletion gap.  For a name that is in the sale log and not in the    *)
(* catalog, the sales report prints the error line for its entry and the   *)
(* sales history prints it for every sale-log entry under the name; both   *)
(* reports print a line for every entry they read, and the lines of the    *)
(* products in the catalog carry a cost and no error.                      *)
C8_DeletionGap ==
    LET report == report_sales(products, sale_txs)
        lines  == display_sales(products, sale_txs)
    IN  /\ DOMAIN report = {sale_txs[k].product_name : k \in 1..Len(sale_txs)}
        /\ \A n \in DOMAIN report : report[n].err <=> ~Present(products, n)
        /\ Len(lines) = Len(sale_txs)
        /\ \A k \in 1..Len(sale_txs) :
              /\ lines[k].product_name = sale_txs[k].product_name
              /\ lines[k].err <=> ~Present(products, sale_txs[k].product_name)

\* a deleted product with a sale in the log, beside one in the catalog with a
\* sale in the log
C8_Witness ==
    \E j, k \in 1..Len(sale_txs) :
        /\ ~Present(products, sale_txs[j].product_name)
        /\ Present(products, sale_txs[k].product_name)

(* C9: a sale of a name that is not in the catalog, and a sale of more     *)
(* than the product has on hand, leave the catalog and both logs as they   *)
(* were; no product's quantity is below zero.                              *)
C9_FailedSaleChangesNothing ==
    /\ \A name \in Names, quantity \in 0..(MaxQty * MaxPurchaseTxs + 1) :
          (\/ ~Present(products, name)
           \/ quantity > ProductOf(products, name).quantity)
          => sales_handler(Inventory, name, quantity) = Inventory
    /\ \A i \in 1..Len(products) : products[i].quantity >= 0

\* a product sold out, so that any sale of it is of more than is on hand, and
\* a name that is not in the catalog
C9_Witness ==
    /\ \E i \in 1..Len(products) :
          /\ products[i].quantity = 0
          /\ SumQty(sale_txs, products[i].name) > 0
    /\ \E name \in Names : ~Present(products, name)

\* what add_handler returns for a purchase it carries out
C10_Both(r, name, description, quantity, sale_price, purchase_price) ==
    /\ r.purchase_txs = Append(purchase_txs,
          [product_name |-> name, quantity |-> quantity,
           purchase_price |-> purchase_price])
    /\ r.sale_txs = sale_txs
    /\ IF Present(products, name)
       THEN LET i == find_product(products, name) IN
            /\ Len(r.products) = Len(products)
            /\ \A j \in 1..Len(products) : j # i => r.products[j] = products[j]
            /\ r.products[i].name = name
            /\ r.products[i].quantity = products[i].quantity + quantity
            /\ LotTotal(r.products[i].purchase_prices)
                  = LotTotal(products[i].purchase_prices) + quantity
            /\ \E k \in 1..Len(r.products[i].purchase_prices) :
                  r.products[i].purchase_prices[k][2] = purchase_price
       ELSE r.products = Append(products,
               [name |-> name, description |-> description,
                quantity |-> quantity, sale_price |-> sale_price,
                purchase_prices |-> << <<quantity, purchase_price>> >>])

(* C10: purchase atomicity.  Every purchase either updates the catalog     *)
(* (creates the product or restocks it) and appends one purchase-log entry *)
(* of the same name, quantity and price, or changes neither the catalog    *)
(* nor the purchase log.                                                   *)
C10_PurchaseAtomic ==
    \A name \in Names, description \in Descriptions, quantity \in Quantities,
       sale_price \in SalePrices, purchase_price \in PurchasePrices :
       LET r == add_handler(Inventory, name, description, quantity, sale_price,
                            purchase_price)
       IN  \/ r = Inventory
           \/ C10_Both(r, name, description, quantity, sale_price,
                       purchase_price)

\* a product created by one purchase and restocked at another price by a
\* second
C10_Witness ==
    \E i \in 1..Len(products) :
        /\ Len(products[i].purchase_prices) = 2
        /\ Len(purchase_txs) = 2
        /\ \A k \in 1..2 :
              /\ purchase_txs[k].product_name = products[i].name
              /\ products[i].purchase_prices[k]
                    = <<purchase_txs[k].quantity, purchase_txs[k].purchase_price>>

---------------------------------------------------------------------------
(* The logs.                                                               *)

(* C11: every entry of the sale log and every entry of the purchase log    *)
(* has a quantity above 0, in every reachable state.                       *)
C11_PositiveQuantities ==
    /\ \A k \in 1..Len(sale_txs) : sale_txs[k].quantity > 0
    /\ \A k \in 1..Len(purchase_txs) : purchase_txs[k].quantity > 0

\* txs is the log more of which is more: more begins with txs, entry for entry
IsPrefix(txs, more) ==
    /\ Len(txs) <= Len(more)
    /\ \A k \in 1..Len(txs) : more[k] = txs[k]

(* C12: both logs are append-only.  Across every step of a session of all  *)
(* the operations (purchase, sale, edit, delete, the five reports), the    *)
(* sale log before the step is a prefix of the sale log after it and the   *)
(* purchase log before it a prefix of the purchase log after it: no entry  *)
(* is removed, reordered or modified, and a deletion leaves the entries of *)
(* the deleted name in place.                                              *)
C12_AppendOnly ==
    [][/\ IsPrefix(sale_txs, sale_txs')
       /\ IsPrefix(purchase_txs, purchase_txs')]_vars

\* a name sold from and deleted, its entries in both logs, after a report of
\* the sales history
C12_Witness ==
    /\ printed.feature = "3"
    /\ \E n \in Names :
          /\ ~Present(products, n)
          /\ CountTxs(sale_txs, n) >= 1
          /\ CountTxs(purchase_txs, n) >= 1
          /\ SumQty(sale_txs, n) >= 1

---------------------------------------------------------------------------
(* The sales history entry by entry.                                       *)

\* the running offset of the product of sale-log entry k when the sales
\* history reaches it: the units of the earlier entries under its name
OffsetBefore(txs, k) == SumQty(SubSeq(txs, 1, k - 1), txs[k].product_name)

\* the units of a lot sequence at positions [offset, offset + quantity), as
\* far as the sequence holds them: the first of them and how many they are
UnitsFrom(lots, offset) == Min(offset, LotTotal(lots))
UnitsHeld(lots, offset, quantity) ==
    Min(quantity, LotTotal(lots) - UnitsFrom(lots, offset))

\* the cost of those units
CostOfUnits(lots, offset, quantity) ==
    SumUnits(UnitCosts(lots), UnitsFrom(lots, offset),
             UnitsHeld(lots, offset, quantity))

(* C13: in the sales history the lot units charged to different sale-log   *)
(* entries of a product are disjoint.  For every sale-log entry k of a     *)
(* product in the catalog, with offset the sum of the quantities of the    *)
(* earlier entries of that product, the history charges the entry the      *)
(* units at positions [offset, offset + quantity) of the product's lot     *)
(* sequence (those of them that the sequence holds) and nothing else: its  *)
(* cost is the sum of their unit costs and the units it leaves unmatched   *)
(* are those positions past the end of the sequence.  The ranges of two    *)
(* entries of a product do not meet, so no unit is charged twice.          *)
C13_DisjointUnits ==
    LET lines == display_sales(products, sale_txs) IN
    \A k \in 1..Len(sale_txs) :
        LET name == sale_txs[k].product_name
            q    == sale_txs[k].quantity
            off  == OffsetBefore(sale_txs, k)
        IN  Present(products, name) =>
                LET lots == ProductOf(products, name).purchase_prices IN
                /\ ~lines[k].err
                /\ lines[k].purchase_price = CostOfUnits(lots, off, q)
                /\ lines[k].unmatched = q - UnitsHeld(lots, off, q)
                /\ \A j \in 1..(k - 1) :
                      sale_txs[j].product_name = name
                      => OffsetBefore(sale_txs, j) + sale_txs[j].quantity <= off

\* a second entry of a product that starts inside its first lot, after the
\* units of the first entry, and ends in its second lot
C13_Witness ==
    \E k \in 1..Len(sale_txs) :
        /\ Present(products, sale_txs[k].product_name)
        /\ LET lots == ProductOf(products, sale_txs[k].product_name).purchase_prices
               off  == OffsetBefore(sale_txs, k)
           IN  /\ Len(lots) = 2
               /\ off >= 1
               /\ off < lots[1][1]
               /\ off + sale_txs[k].quantity > lots[1][1]
               /\ off + sale_txs[k].quantity <= LotTotal(lots)

\* the Widget scenario: created with 10 units at purchase price 2 and sale
\* price 5, restocked by 5 at 3, sold by 12
C14_Scenario ==
    /\ Len(products) = 1
    /\ products[1].name = "Widget"
    /\ products[1].sale_price = 5
    /\ products[1].purchase_prices = << <<10, 2>>, <<5, 3>> >>
    /\ purchase_txs = << PurchaseTx_new("Widget", 10, 2),
                         PurchaseTx_new("Widget", 5, 3) >>
    /\ sale_txs = << SaleTx_new("Widget", 12, 5) >>

(* C14: sequential-mode profit.  When the sales history has been run, its  *)
(* line for each sale-log entry of a product in the catalog reports profit *)
(* = quantity * sale_price of the entry - the FIFO cost of the entry's     *)
(* units (those from the product's running offset on), and the running     *)
(* offset of a product after each entry is the sum of the quantities of    *)
(* the entries of that product so far, matched or not.  In the Widget      *)
(* scenario (10 at 2.00 and sale price 5.00, restock 5 at 3.00, sell 12)   *)
(* the lots are [(10, 2), (5, 3)], the cost is 26, the revenue 60, the     *)
(* profit 34 and the remaining quantity 3.                                 *)
C14_SequentialProfit ==
    printed.feature = "3" =>
        /\ Len(printed.lines) = Len(sale_txs)
        /\ \A k \in 1..Len(sale_txs) :
              LET tx == sale_txs[k] IN
              Present(products, tx.product_name) =>
                  /\ ~printed.lines[k].err
                  /\ printed.lines[k].profit =
                        tx.quantity * tx.sale_price
                        - CostOfUnits(
                              ProductOf(products, tx.product_name).purchase_prices,
                              OffsetBefore(sale_txs, k), tx.quantity)
        /\ \A i \in 0..Len(sale_txs) :
              LET m == display_loop(products, sale_txs, i).sold_purchase_prices
              IN  \A n \in DOMAIN m :
                     m[n].offset = SumQty(SubSeq(sale_txs, 1, i), n)
        /\ C14_Scenario =>
              /\ printed.lines[1].purchase_price = 26
              /\ printed.lines[1].quantity * printed.lines[1].sale_price = 60
              /\ printed.lines[1].profit = 34
              /\ products[1].quantity = 3

\* the sales history of the Widget scenario
C14_Witness ==
    /\ printed.feature = "3"
    /\ C14_Scenario
    /\ printed.lines[1].profit = 34

---------------------------------------------------------------------------
(* The units the lots do not hold.                                         *)

(* C15: unmatched remainder.  When the quantity to be costed for a product *)
(* in the catalog exceeds the units its lots hold from the current offset  *)
(* on, the report surfaces the entry as an attribution gap (the error      *)
(* line) rather than as an ordinary profit figure: the line of the sales   *)
(* report for a product that sold more than its lots hold, and the line of *)
(* the sales history for an entry that ends past the last unit of the      *)
(* lots.                                                                   *)
C15_RemainderSurfaced ==
    /\ printed.feature = "2" =>
          \A n \in DOMAIN printed.lines :
              (/\ Present(products, n)
               /\ SumQty(sale_txs, n)
                     > LotTotal(ProductOf(products, n).purchase_prices))
              => printed.lines[n].err
    /\ printed.feature = "3" =>
          \A k \in 1..Len(sale_txs) :
              (/\ Present(products, sale_txs[k].product_name)
               /\ OffsetBefore(sale_txs, k) + sale_txs[k].quantity
                     > LotTotal(ProductOf(products,
                                          sale_txs[k].product_name).purchase_prices))
              => printed.lines[k].err

---------------------------------------------------------------------------
(* The reports as reads.                                                   *)

---------------------------------------------------------------------------
(* Edit, delete and the names of the catalog.                              *)

\* what edit_handler returns for a name in the catalog: the product at its
\* place, with the fields typed and the others as they were
C17_Edited(r, name, description, sale_price) ==
    LET i   == find_product(products, name)
        old == products[i]
        new == r.products[i]
    IN  /\ Len(r.products) = Len(products)
        /\ \A j \in 1..Len(products) : j # i => r.products[j] = products[j]
        /\ new.name = old.name
        /\ new.quantity = old.quantity
        /\ new.purchase_prices = old.purchase_prices
        /\ description = Keep => new.description = old.description
        /\ sale_price = Keep => new.sale_price = old.sale_price
        /\ r # Inventory =>
              /\ description # Keep => new.description = description[1]
              /\ sale_price # Keep => new.sale_price = sale_price[1]

(* C17: edit is a partial update.  For every name, description and sale    *)
(* price typed (or kept) in every reachable state: an edit leaves both     *)
(* logs as they were; an edit of a name absent from the catalog changes    *)
(* nothing; an edit of a name in the catalog leaves the product's name,    *)
(* quantity and lots and every other product as they were, a field kept    *)
(* holds its prior value, and in an edit that changes anything a field     *)
(* typed holds the value typed.                                            *)
C17_EditIsPartialUpdate ==
    \A name \in Names, description \in Typed(Descriptions) \cup {Keep},
       sale_price \in Typed(SalePrices) \cup {Keep} :
       LET r == edit_handler(Inventory, name, description, sale_price) IN
       /\ r.sale_txs = sale_txs
       /\ r.purchase_txs = purchase_txs
       /\ IF Present(products, name)
          THEN C17_Edited(r, name, description, sale_price)
          ELSE r = Inventory

\* a product bought once, whose lots are that purchase, with a sale price
\* that an entry of the sale log under its name does not hold: its price was
\* edited after the sale, its lots and quantity kept
C17_Witness ==
    /\ Len(purchase_txs) = 1
    /\ \E i \in 1..Len(products), k \in 1..Len(sale_txs) :
          /\ products[i].name = purchase_txs[1].product_name
          /\ sale_txs[k].product_name = products[i].name
          /\ sale_txs[k].sale_price # products[i].sale_price
          /\ products[i].purchase_prices
                = << <<purchase_txs[1].quantity, purchase_txs[1].purchase_price>> >>
          /\ products[i].quantity
                = purchase_txs[1].quantity - SumQty(sale_txs, products[i].name)
          /\ SumQty(sale_txs, products[i].name) >= 1

\* ps without its element at position i
Without(ps, i) == SubSeq(ps, 1, i - 1) \o SubSeq(ps, i + 1, Len(ps))

(* C18: delete never fails and is idempotent.  For every name in every     *)
(* reachable state, a deletion returns an inventory: if the name is in the *)
(* catalog, the catalog without that one product, the others unchanged and *)
(* in the order they were in; if it is not, the inventory as it was; the   *)
(* logs are as they were; and deleting the name again changes nothing      *)
(* more.                                                                   *)
C18_DeleteIdempotent ==
    \A name \in CatalogNames :
       LET r == delete_handler(Inventory, name) IN
       /\ r.sale_txs = sale_txs
       /\ r.purchase_txs = purchase_txs
       /\ IF Present(products, name)
          THEN r.products = Without(products, find_product(products, name))
          ELSE r = Inventory
       /\ ~Present(r.products, name)
       /\ delete_handler(r, name) = r

\* three names bought, the one bought second deleted: the two others are in
\* the catalog, in the order they were bought in
C18_Witness ==
    /\ Len(purchase_txs) = 3
    /\ Len(products) = 2
    /\ products[1].name = purchase_txs[1].product_name
    /\ products[2].name = purchase_txs[3].product_name
    /\ ~Present(products, purchase_txs[2].product_name)

\* the names of a catalog, in its order
NamesOf(ps) == [i \in 1..Len(ps) |-> ps[i].name]

(* C19: product names are unique keys.  In every reachable state no two    *)
(* products of the catalog have the same name.  A purchase (quantity above *)
(* 0, purchase price not negative) for a name in the catalog restocks the  *)
(* product of that name and leaves the catalog with the same names, each   *)
(* once; a purchase (sale price not negative either) for a name not in the *)
(* catalog adds one product of that name, whose quantity is the purchased  *)
(* quantity and whose lots are the one lot (quantity, purchase_price).     *)
C19_UniqueNames ==
    /\ \A i, j \in 1..Len(products) :
          i # j => products[i].name # products[j].name
    /\ \A name \in Names, description \in Descriptions,
          quantity \in Quantities \ {0}, sale_price \in SalePrices,
          purchase_price \in PurchasePrices \ {-1} :
          LET r == add_handler(Inventory, name, description, quantity,
                               sale_price, purchase_price)
          IN  IF Present(products, name)
              THEN /\ NamesOf(r.products) = NamesOf(products)
                   /\ ProductOf(r.products, name).quantity
                         = ProductOf(products, name).quantity + quantity
              ELSE sale_price >= 0 =>
                   /\ NamesOf(r.products) = Append(NamesOf(products), name)
                   /\ ProductOf(r.products, name).quantity = quantity
                   /\ ProductOf(r.products, name).purchase_prices
                         = << <<quantity, purchase_price>> >>

\* one product in the catalog, after two purchases under its name and no
\* deletion: it holds the units of both
C19_Witness ==
    /\ Len(products) = 1
    /\ Len(purchase_txs) = 2
    /\ Len(sale_txs) = 0
    /\ purchase_txs[1].product_name = products[1].name
    /\ purchase_txs[2].product_name = products[1].name
    /\ products[1].quantity = purchase_txs[1].quantity + purchase_txs[2].quantity

---------------------------------------------------------------------------
(* The width of the quantities.                                            *)

(* C20: no operation ends in a fatal fault and the u64 arithmetic stays in *)
(* range.  In every reachable state of a session of valid operations the   *)
(* process has not panicked, every quantity of the catalog is within the   *)
(* range of a u64, and no restock that can be typed overflows the sum of   *)
(* the product's quantity or of a lot's quantity, no sale that is carried  *)
(* out subtracts more than the product has, and no report overflows the    *)
(* sold total of a product, the running offset of a product or the total   *)
(* of a product's lots.                                                    *)
C20_NoOverflow ==
    /\ ~panicked
    /\ \A i \in 1..Len(products) :
          /\ products[i].quantity \in 0..U64_MAX
          /\ \A k \in 1..Len(products[i].purchase_prices) :
                products[i].purchase_prices[k][1] \in 0..U64_MAX
    /\ \A name \in WideNames, quantity \in 1..U64_MAX,
          purchase_price \in WidePurchasePrices :
          ~add_handler_overflows(Inventory, name, quantity, purchase_price)
    /\ \A name \in WideNames, quantity \in 0..U64_MAX :
          (/\ Present(products, name)
           /\ sales_handler(Inventory, name, quantity) # Inventory)
          => quantity <= ProductOf(products, name).quantity
    /\ \A feature \in Features : ~report_feature_overflows(Inventory, feature)

---------------------------------------------------------------------------
(* The lots over time.                                                     *)

\* the first lot of lots with the unit cost purchase_price, 0 if none
FirstLotOf(lots, purchase_price) ==
    IF \E k \in 1..Len(lots) : lots[k][2] = purchase_price
    THEN CHOOSE k \in 1..Len(lots) :
            /\ lots[k][2] = purchase_price
            /\ \A j \in 1..(k - 1) : lots[j][2] # purchase_price
    ELSE 0

\* new holds the lots of old at their places, at their unit costs, none of them
\* smaller
LotsGrown(old, new) ==
    /\ Len(new) >= Len(old)
    /\ \A k \in 1..Len(old) :
          /\ new[k][2] = old[k][2]
          /\ new[k][1] >= old[k][1]

\* what a handler returns holds, for every product it leaves in the catalog,
\* the lots the product had
C21_LotsKept(r) ==
    \A n \in Names :
        (Present(products, n) /\ Present(r.products, n))
        => LotsGrown(ProductOf(products, n).purchase_prices,
                     ProductOf(r.products, n).purchase_prices)

(* C21: lot order preservation.  In every reachable state, for every       *)
(* restock that can be typed (a name in the catalog, a quantity above 0, a *)
(* purchase price not negative): at a unit cost that the product's lots do *)
(* not hold, the lots after it are the lots before it with the one lot     *)
(* (quantity, cost) appended; at a unit cost they hold, they are the lots  *)
(* before it with the quantity added to the first lot of that cost and     *)
(* nothing else changed.  Every sale leaves the lots of every product as   *)
(* they were, and no operation (purchase, sale, edit, delete) removes a    *)
(* lot of a product it leaves in the catalog, moves it, changes its unit   *)
(* cost or decreases its quantity.                                         *)
C21_LotOrderPreserved ==
    /\ \A name \in Names, description \in Descriptions,
          quantity \in Quantities \ {0}, sale_price \in SalePrices,
          purchase_price \in PurchasePrices \ {-1} :
          Present(products, name) =>
             LET old == ProductOf(products, name).purchase_prices
                 r   == add_handler(Inventory, name, description, quantity,
                                    sale_price, purchase_price)
                 new == ProductOf(r.products, name).purchase_prices
                 f   == FirstLotOf(old, purchase_price)
             IN  IF f = 0
                 THEN new = Append(old, <<quantity, purchase_price>>)
                 ELSE new = [old EXCEPT ![f] = <<old[f][1] + quantity,
                                                 purchase_price>>]
    /\ \A name \in Names, quantity \in Quantities :
          LET r == sales_handler(Inventory, name, quantity) IN
          /\ Len(r.products) = Len(products)
          /\ \A i \in 1..Len(products) :
                r.products[i].purchase_prices = products[i].purchase_prices
    /\ EveryReturn(C21_LotsKept)

\* a product of two lots, the first of them its first purchase, that has been
\* sold from: its lots still hold every unit bought
C21_Witness ==
    \E i \in 1..Len(products) :
        LET name == products[i].name
            lots == products[i].purchase_prices
        IN  /\ Len(lots) = 2
            /\ SumQty(sale_txs, name) >= 1
            /\ products[i].quantity < LotTotal(lots)
            /\ LotTotal(lots) = SumQty(purchase_txs, name)
            /\ lots[1] = <<purchase_txs[1].quantity, purchase_txs[1].purchase_price>>

---------------------------------------------------------------------------
(* The lots of a product that was never deleted.                           *)

(* C22: lot totals, for a product that has never been deleted.  In every   *)
(* reachable state of a session of purchases and sales (no product is ever *)
(* deleted in it), for each product in the catalog: the quantities of its  *)
(* lots sum to the quantities of the purchase-log entries under its name,  *)
(* every lot has a quantity above 0, and the quantities of its lots sum to *)
(* at least the quantities of the sale-log entries under its name; and     *)
(* both cost modes match every sold unit to a lot: the line of the sales   *)
(* report for the product and every line of the sales history are not      *)
(* error lines and leave no unit unmatched.                                *)
C22_LotTotals ==
    LET report  == report_sales(products, sale_txs)
        history == display_sales(products, sale_txs)
    IN  /\ \A i \in 1..Len(products) :
              LET name == products[i].name
                  lots == products[i].purchase_prices
              IN  /\ LotTotal(lots) = SumQty(purchase_txs, name)
                  /\ \A k \in 1..Len(lots) : lots[k][1] > 0
                  /\ LotTotal(lots) >= SumQty(sale_txs, name)
                  /\ name \in DOMAIN report
                        => /\ ~report[name].err
                           /\ report[name].unmatched = 0
        /\ Len(history) = Len(sale_txs)
        /\ \A k \in 1..Len(history) :
              /\ ~history[k].err
              /\ history[k].unmatched = 0

\* a product of two lots sold to its last unit in two entries: both cost
\* modes reach the end of its last lot
C22_Witness ==
    \E i \in 1..Len(products) :
        LET name == products[i].name
            lots == products[i].purchase_prices
        IN  /\ Len(lots) = 2
            /\ products[i].quantity = 0
            /\ CountTxs(sale_txs, name) = 2
            /\ \A k \in 1..Len(sale_txs) : sale_txs[k].quantity >= 1
            /\ SumQty(sale_txs, name) = LotTotal(lots)

---------------------------------------------------------------------------
(* The cost of an entry after a later purchase.                            *)

\* the units of lots up to the end of lot f
LotEnd(lots, f) == LotTotal(SubSeq(lots, 1, f))

\* the units of lots that a restock at purchase_price leaves at their places:
\* those up to the end of the first lot of that cost, all of them if no lot
\* has it
UnitsInPlace(lots, purchase_price) ==
    IF FirstLotOf(lots, purchase_price) = 0
    THEN LotTotal(lots)
    ELSE LotEnd(lots, FirstLotOf(lots, purchase_price))

\* the sale-log entries that a restock of name at purchase_price is to leave
\* at their cost: Stable(k, lots) says which entries k of the product
C23_CostKept(Stable(_, _)) ==
    \A name \in Names, description \in Descriptions,
       quantity \in Quantities \ {0}, sale_price \in SalePrices,
       purchase_price \in PurchasePrices \ {-1} :
       Present(products, name) =>
          LET lots   == ProductOf(products, name).purchase_prices
              r      == add_handler(Inventory, name, description, quantity,
                                    sale_price, purchase_price)
              before == display_sales(products, sale_txs)
              after  == display_sales(r.products, r.sale_txs)
          IN  /\ Present(r.products, name)
              /\ r.sale_txs = sale_txs
              /\ Len(after) = Len(before)
              /\ \A k \in 1..Len(sale_txs) :
                    (sale_txs[k].product_name # name
                        \/ Stable(k, UnitsInPlace(lots, purchase_price)))
                    => /\ after[k].purchase_price = before[k].purchase_price
                       /\ after[k].profit = before[k].profit

C23_Any(k, units) == TRUE
C23_EndsInPlace(k, units) ==
    OffsetBefore(sale_txs, k) + sale_txs[k].quantity <= units

(* C23 as claimed: in every reachable state, for every restock that can be *)
(* typed for a product in the catalog (at a new or at an already-present   *)
(* unit cost), the sales history after the restock gives every sale-log    *)
(* entry the cost and the profit it gave it before.                        *)
C23_CostStable == C23_CostKept(C23_Any)

(* C23, amended: in every reachable state, for every restock that can be   *)
(* typed for a product in the catalog, the sales history after the restock *)
(* gives the cost and the profit it gave before to every sale-log entry of *)
(* another product and to every entry of the product whose units end at or *)
(* before the end of the lot the restock adds to: the first lot of that    *)
(* unit cost, or the end of the lots for a unit cost that no lot has.      *)
C23_CostStableInPlace == C23_CostKept(C23_EndsInPlace)

\* a product of two lots sold into its second lot: a restock at the cost of
\* its first lot moves the units of the second, one at the cost of the second
\* keeps every unit in its place
C23_Witness ==
    \E i \in 1..Len(products) :
        LET name == products[i].name
            lots == products[i].purchase_prices
        IN  /\ Len(lots) = 2
            /\ lots[1][2] # lots[2][2]
            /\ SumQty(sale_txs, name) > lots[1][1]
            /\ SumQty(sale_txs, name) <= LotTotal(lots)
            /\ UnitsInPlace(lots, lots[1][2]) < LotTotal(lots)
            /\ UnitsInPlace(lots, lots[2][2]) = LotTotal(lots)

---------------------------------------------------------------------------
(* The sale-log entries of a product deleted and created again.            *)

\* the units of the product sold since it was last created: each purchase
\* adds its quantity to product.quantity and to the lots, each sale takes its
\* quantity from product.quantity alone
SoldSinceCreated(product) ==
    LotTotal(product.purchase_prices) - product.quantity

\* the units the sale log holds under the product's name from before it was
\* last created: those of the products of that name deleted since
SoldBeforeCreated(product) ==
    SumQty(sale_txs, product.name) - SoldSinceCreated(product)

(* C24: in every reachable state, for each product in the catalog, the     *)
(* sale-log entries under its name that were recorded before the product   *)
(* was last created (the entries of a deleted product of the same name)    *)
(* are charged no unit of the product's lots: the sales history matches no *)
(* unit of such an entry to a lot, and the sales report matches to the     *)
(* product's lots at most the units sold since the product was created.    *)
C24_OldEntriesNotCosted ==
    LET report  == report_sales(products, sale_txs)
        history == display_sales(products, sale_txs)
    IN  \A i \in 1..Len(products) :
            LET name == products[i].name IN
            /\ \A k \in 1..Len(sale_txs) :
                  (/\ sale_txs[k].product_name = name
                   /\ OffsetBefore(sale_txs, k) + sale_txs[k].quantity
                         <= SoldBeforeCreated(products[i]))
                  => history[k].unmatched = history[k].quantity
            /\ name \in DOMAIN report
                  => report[name].quantity - report[name].unmatched
                        <= SoldSinceCreated(products[i])

===========================================================================
